---- MODULE Spec2Model ----
(***************************************************************************)
(* Model of compiler/compile.py, the multi-provider agent compiler.        *)
(*                                                                         *)
(* Text is modelled as a sequence of one-character strings, so that the    *)
(* substring test, strip() and the line structure of manifest.txt are      *)
(* computed as Python computes them.  The output tree (OUTPUT_DIR) is one  *)
(* record: rendered files, manifests and copied skill assets.              *)
(***************************************************************************)
EXTENDS Integers, Sequences, FiniteSets, TLC

VARIABLES
    output,      \* the tree under OUTPUT_DIR
    skillsrc,    \* the skill folders under SKILLS_DIR
    agentsDir,   \* the descriptor files of AGENTS_DIR, in glob order
    commandsDir, \* the descriptor files of COMMANDS_DIR, in glob order
    legacy,      \* the descriptor files directly under SKILLS_DIR
    templates,   \* the template files that exist under TEMPLATES_DIR
    schemas,     \* the schema files that exist under SCHEMA_DIR
    last,        \* the call made by the last step, its result
    trace,       \* what the last step printed
    budget,      \* number of steps the run of the model may still take
    written,     \* per manifest, the names in order of first write
    fmt          \* a tools value and the section a formatter made of it

vars == <<output, skillsrc, agentsDir, commandsDir, legacy, templates,
          schemas, last, trace, budget, written, fmt>>

(***************************************************************************)
(* Bounds                                                                  *)
(***************************************************************************)
MaxWrites == 3
MaxCompiles == 2
MaxFiles == 2
MaxSteps == 3
MaxMainSteps == 2
MaxEdits == 4
MaxTools == 2

(***************************************************************************)
(* Text helpers (Python str semantics)                                     *)
(***************************************************************************)
NL == "\n"
SP == " "
Whitespace == {SP, NL}

RECURSIVE Concat(_)
Concat(ss) == IF ss = <<>> THEN <<>> ELSE Head(ss) \o Concat(Tail(ss))

\* "sep".join(items)
RECURSIVE Join(_, _)
Join(sep, items) ==
    IF items = <<>> THEN <<>>
    ELSE IF Len(items) = 1 THEN items[1]
    ELSE items[1] \o sep \o Join(sep, Tail(items))

\* s.lstrip() / s.rstrip() / s.strip()
RECURSIVE LStrip(_)
LStrip(s) == IF s # <<>> /\ Head(s) \in Whitespace THEN LStrip(Tail(s)) ELSE s

RECURSIVE RStrip(_)
RStrip(s) ==
    IF s # <<>> /\ s[Len(s)] \in Whitespace
    THEN RStrip(SubSeq(s, 1, Len(s) - 1)) ELSE s

Strip(s) == RStrip(LStrip(s))

\* sub in s
Contains(sub, s) ==
    \E i \in 0..(Len(s) - Len(sub)) : SubSeq(s, i + 1, i + Len(sub)) = sub

\* s.splitlines(): the lines of a text, line breaks removed
RECURSIVE SplitLines(_, _)
SplitLines(s, cur) ==
    IF s = <<>> THEN (IF cur = <<>> THEN <<>> ELSE <<cur>>)
    ELSE IF Head(s) = NL THEN <<cur>> \o SplitLines(Tail(s), <<>>)
    ELSE SplitLines(Tail(s), Append(cur, Head(s)))

Lines(s) == SplitLines(s, <<>>)

Range(f) == {f[i] : i \in DOMAIN f}

\* f with key k set to v (k need not be in the domain of f)
Put(f, k, v) == [x \in (DOMAIN f) \cup {k} |-> IF x = k THEN v ELSE f[x]]

\* f without the keys in ks
Drop(f, ks) == [x \in (DOMAIN f) \ ks |-> f[x]]

Chars(str) ==
    CASE str = "tools: [" -> <<"t", "o", "o", "l", "s", ":", " ", "[">>
      [] str = "tools:"   -> <<"t", "o", "o", "l", "s", ":">>
      [] str = ": true"   -> <<":", " ", "t", "r", "u", "e">>
      [] str = ", "       -> <<",", " ">>
      [] str = "None"     -> <<"N", "o", "n", "e">>
      [] str = ".json"    -> <<".", "j", "s", "o", "n">>
      [] str = ".JSON"    -> <<".", "J", "S", "O", "N">>

LowerChars == <<"a", "b", "c", "d", "e", "f", "g", "h", "i", "j", "k", "l",
                "m", "n", "o", "p", "q", "r", "s", "t", "u", "v", "w", "x",
                "y", "z">>
UpperChars == <<"A", "B", "C", "D", "E", "F", "G", "H", "I", "J", "K", "L",
                "M", "N", "O", "P", "Q", "R", "S", "T", "U", "V", "W", "X",
                "Y", "Z">>

LowerChar(c) ==
    IF \E i \in DOMAIN UpperChars : UpperChars[i] = c
    THEN LowerChars[CHOOSE i \in DOMAIN UpperChars : UpperChars[i] = c]
    ELSE c

UpperChar(c) ==
    IF \E i \in DOMAIN LowerChars : LowerChars[i] = c
    THEN UpperChars[CHOOSE i \in DOMAIN LowerChars : LowerChars[i] = c]
    ELSE c

\* s.lower()
Lower(s) == [i \in DOMAIN s |-> LowerChar(s[i])]

\* s.capitalize(): first character upper case, the rest lower case
Capitalize(s) == [i \in DOMAIN s |-> IF i = 1 THEN UpperChar(s[i])
                                               ELSE LowerChar(s[i])]

(***************************************************************************)
(* Configuration (compile.py:24-38) and the output tree                    *)
(***************************************************************************)
PROVIDER_PATHS == {"claude", "opencode", "copilot"}
Categories == {"agents", "commands", "skills"}

\* The output tree.  outfile maps <<provider, category, name>> to the text
\* of <root>/<category>/<name>.md (skills: <root>/skills/<name>/SKILL.md),
\* manifest maps <<provider, category>> to the text of manifest.txt, assets
\* maps <<provider, skill>> to the copied items of the skill's folder.  A
\* path exists when its key is in the domain.
EmptyOutput == [outfile |-> << >>, manifest |-> << >>, assets |-> << >>]

\* Entity names used as inputs: plain names, a name that is a substring of
\* another, and a name with a trailing blank (any JSON string is accepted).
Names == { <<"a">>, <<"b">>, <<"a", "b">>, <<"a", SP>> }

\* Rendered documents used as inputs of the output writer
Contents == { <<"x">> }

(***************************************************************************)
(* Output writer (compile.py:248-313)                                      *)
(***************************************************************************)
\* The manifest update the three writers share: create the manifest with
\* the name, or append the name unless it occurs in the stripped text.
ManifestEntry(manifest, key, name) ==
    IF key \notin DOMAIN manifest
    THEN Put(manifest, key, name \o <<NL>>)
    ELSE LET current_content == Strip(manifest[key]) IN
         IF ~Contains(name, current_content)
         THEN Put(manifest, key, current_content \o <<NL>> \o name \o <<NL>>)
         ELSE manifest

write_agent_output(out, agent_name, content, provider) ==
    [out EXCEPT
        !.outfile = Put(@, <<provider, "agents", agent_name>>, content),
        !.manifest = ManifestEntry(@, <<provider, "agents">>, agent_name)]

\* a command writer that keeps its manifest in the agents folder
write_command_output_agents_manifest(out, command_name, content, provider) ==
    [out EXCEPT
        !.outfile = Put(@, <<provider, "commands", command_name>>, content),
        !.manifest = ManifestEntry(@, <<provider, "agents">>, command_name)]

write_command_output(out, command_name, content, provider) ==
    [out EXCEPT
        !.outfile = Put(@, <<provider, "commands", command_name>>, content),
        !.manifest = ManifestEntry(@, <<provider, "commands">>, command_name)]

write_skill_output(out, skill_name, content, provider) ==
    [out EXCEPT
        !.outfile = Put(@, <<provider, "skills", skill_name>>, content),
        !.manifest = ManifestEntry(@, <<provider, "skills">>, skill_name),
        !.assets = IF <<provider, skill_name>> \in DOMAIN @ THEN @
                   ELSE Put(@, <<provider, skill_name>>, << >>)]

\* Names in order of first write, per manifest (history of the calls)
NoteWritten(w, key, name) ==
    IF key \notin DOMAIN w THEN Put(w, key, <<name>>)
    ELSE IF name \in Range(w[key]) THEN w
    ELSE Put(w, key, Append(w[key], name))

\* JSON values of the `tools` field
JNull == [t |-> "null", b |-> FALSE, n |-> 0, s |-> << >>, items |-> << >>]
JBool(b) == [JNull EXCEPT !.t = "bool", !.b = b]
JInt(n) == [JNull EXCEPT !.t = "int", !.n = n]
JStr(s) == [JNull EXCEPT !.t = "str", !.s = s]
JList(items) == [JNull EXCEPT !.t = "list", !.items = items]

NoFormat == [tools |-> JNull, provider |-> "none", text |-> << >>]

NoData == [json |-> "none", fields |-> {}, name |-> << >>, disabled |-> {},
           tools |-> JNull]

NoLast == [op |-> "none", category |-> "none", name |-> << >>,
           provider |-> "none", data |-> NoData, providers |-> << >>,
           ret |-> "none", status |-> "none", validate |-> FALSE,
           seq |-> 0]

WriteCall(category, name, provider, n) ==
    [NoLast EXCEPT !.op = "write", !.category = category, !.name = name,
                   !.provider = provider, !.seq = n]

InitWrite ==
    /\ output = EmptyOutput
    /\ skillsrc = << >>
    /\ agentsDir = << >>
    /\ commandsDir = << >>
    /\ legacy = << >>
    /\ templates = {}
    /\ schemas = << >>
    /\ last = NoLast
    /\ trace = << >>
    /\ budget = MaxWrites
    /\ written = << >>
    /\ fmt = NoFormat

WriteAgentOutput ==
    \E name \in Names, content \in Contents, provider \in PROVIDER_PATHS :
        /\ budget > 0
        /\ output' = write_agent_output(output, name, content, provider)
        /\ written' = NoteWritten(written, <<provider, "agents">>, name)
        /\ last' = WriteCall("agents", name, provider, budget)
        /\ budget' = budget - 1
        /\ UNCHANGED <<fmt, skillsrc, agentsDir, commandsDir, legacy, templates,
                       schemas, trace>>

WriteCommandOutput ==
    \E name \in Names, content \in Contents, provider \in PROVIDER_PATHS :
        /\ budget > 0
        /\ output' = write_command_output(output, name, content, provider)
        /\ written' = NoteWritten(written, <<provider, "commands">>, name)
        /\ last' = WriteCall("commands", name, provider, budget)
        /\ budget' = budget - 1
        /\ UNCHANGED <<fmt, skillsrc, agentsDir, commandsDir, legacy, templates,
                       schemas, trace>>

WriteSkillOutput ==
    \E name \in Names, content \in Contents, provider \in PROVIDER_PATHS :
        /\ budget > 0
        /\ output' = write_skill_output(output, name, content, provider)
        /\ written' = NoteWritten(written, <<provider, "skills">>, name)
        /\ last' = WriteCall("skills", name, provider, budget)
        /\ budget' = budget - 1
        /\ UNCHANGED <<fmt, skillsrc, agentsDir, commandsDir, legacy, templates,
                       schemas, trace>>

NextWrite == WriteAgentOutput \/ WriteCommandOutput \/ WriteSkillOutput

SpecWrite == InitWrite /\ [][NextWrite]_vars

(***************************************************************************)
(* Loading and validation (compile.py:41-70)                               *)
(***************************************************************************)
\* Python's None where a text is expected, and the truth value of a text
None == <<"None">>
TruthyText(v) == v # None /\ v # << >>

\* str(v), as an f-string formats a name
Str(v) == IF v = None THEN Chars("None") ELSE v

\* A template is a sequence of literal texts and $placeholders
Lit(t) == [var |-> "", lit |-> t]
Var(v) == [var |-> v, lit |-> << >>]

\* load_template that goes on with an empty template when the file is missing
load_template_no_exit(tpls, template_name, template_type) ==
    IF <<template_type, template_name>> \in DOMAIN tpls
    THEN [status |-> "ok", template |-> tpls[<<template_type, template_name>>]]
    ELSE [status |-> "ok", template |-> << >>]

\* load_template: the template, or process exit when the file is missing
load_template(tpls, template_name, template_type) ==
    IF <<template_type, template_name>> \in DOMAIN tpls
    THEN [status |-> "ok", template |-> tpls[<<template_type, template_name>>]]
    ELSE [status |-> "exit", template |-> << >>]

\* load_schema: the schema, or None when the file is missing
NoSchema == [none |-> TRUE, required |-> << >>]
Schema(required) == [none |-> FALSE, required |-> required]

load_schema(schs, schema_name) ==
    IF schema_name \in DOMAIN schs THEN schs[schema_name] ELSE NoSchema

\* validate_json: presence of the schema's required fields
validate_json(data, schema) ==
    IF schema.none THEN TRUE
    ELSE \A i \in DOMAIN schema.required : schema.required[i] \in data.fields

(***************************************************************************)
(* Tool formatters (compile.py:73-103)                                     *)
(***************************************************************************)
Truthy(v) ==
    CASE v.t = "null" -> FALSE
      [] v.t = "bool" -> v.b
      [] v.t = "int"  -> v.n # 0
      [] v.t = "str"  -> v.s # << >>
      [] v.t = "list" -> v.items # << >>

\* format_tools_claude that keeps the tool names as they are written
format_tools_claude_as_is(tools) ==
    IF ~Truthy(tools) THEN << >>
    ELSE IF tools.t = "list"
    THEN Chars("tools: [") \o Join(Chars(", "), tools.items) \o <<"]", NL>>
    ELSE << >>

format_tools_claude(tools) ==
    IF ~Truthy(tools) THEN << >>
    ELSE IF tools.t = "list"
    THEN LET formatted == [i \in DOMAIN tools.items |->
                               Capitalize(tools.items[i])]
         IN Chars("tools: [") \o Join(Chars(", "), formatted) \o <<"]", NL>>
    ELSE << >>

format_tools_opencode(tools) ==
    IF ~Truthy(tools) THEN << >>
    ELSE IF tools.t = "list"
    THEN LET lines == <<Chars("tools:")>> \o
                      [i \in DOMAIN tools.items |->
                          <<SP, SP>> \o Lower(tools.items[i]) \o Chars(": true")]
         IN Join(<<NL>>, lines) \o <<NL>>
    ELSE << >>

format_tools_copilot(tools) ==
    IF ~Truthy(tools) THEN << >>
    ELSE IF tools.t = "list"
    THEN LET formatted == [i \in DOMAIN tools.items |->
                               <<"'">> \o Lower(tools.items[i]) \o <<"'">>]
         IN Chars("tools: [") \o Join(Chars(", "), formatted) \o <<"]", NL>>
    ELSE << >>

(***************************************************************************)
(* Entity compiler (compile.py:169-245)                                    *)
(***************************************************************************)
\* entity_data.get(key, default) for the text fields
Get(data, key, default) ==
    IF key \notin data.fields THEN default
    ELSE IF key = "name" THEN data.name
    ELSE <<"d">>

\* The placeholders the templates of the model use.  The scalar sections
\* (model, color, temperature, maxIterations, target) and the permission,
\* handoff and mcpServers sections are left out: no descriptor of the model
\* sets those fields, so they render as the empty text.
Context(entity_data, provider) ==
    [ name |-> Get(entity_data, "name", << >>),
      description |-> Get(entity_data, "description", << >>),
      tools_section |->
          IF provider = "claude" THEN format_tools_claude(entity_data.tools)
          ELSE IF provider = "opencode"
               THEN format_tools_opencode(entity_data.tools)
          ELSE IF provider = "copilot"
               THEN format_tools_copilot(entity_data.tools)
          ELSE << >> ]

\* template.substitute(context)
Substitute(template, context) ==
    Concat([i \in DOMAIN template |->
               IF template[i].var = "" THEN template[i].lit
               ELSE context[template[i].var]])

\* compile_entity_for_provider that does not look at the `providers` map
compile_entity_for_provider_all(entity_data, provider, template_type, tpls) ==
    LET t == load_template(tpls, provider, template_type) IN
    IF t.status = "exit"
    THEN [status |-> "exit", content |-> None]
    ELSE [status |-> "ok",
          content |-> Substitute(t.template, Context(entity_data, provider))]

\* the rendered document, None for a disabled provider, or process exit
compile_entity_for_provider(entity_data, provider, template_type, tpls) ==
    IF provider \in entity_data.disabled
    THEN [status |-> "ok", content |-> None]
    ELSE LET t == load_template(tpls, provider, template_type) IN
         IF t.status = "exit"
         THEN [status |-> "exit", content |-> None]
         ELSE [status |-> "ok",
               content |-> Substitute(t.template, Context(entity_data, provider))]

compile_agent_for_provider(agent_data, provider, tpls) ==
    compile_entity_for_provider(agent_data, provider, "agents", tpls)

compile_skill_for_provider(skill_data, provider, tpls) ==
    compile_entity_for_provider(skill_data, provider, "skills", tpls)

compile_command_for_provider(command_data, provider, tpls) ==
    compile_entity_for_provider(command_data, provider, "agents", tpls)

(***************************************************************************)
(* Skill asset copier (compile.py:316-352)                                 *)
(***************************************************************************)
\* An item of a folder is a file with a text or a directory of files.
\* Item names are [stem, suffix].
FileItem(t) == [type |-> "file", text |-> t, children |-> << >>,
                data |-> NoData]
DirItem(ch) == [type |-> "dir", text |-> << >>, children |-> ch,
                data |-> NoData]
\* a descriptor file: data is what json.loads makes of its text
JsonItem(d) == [type |-> "file", text |-> << >>, children |-> << >>,
                data |-> d]
ItemName(stem, suffix) == [stem |-> stem, suffix |-> suffix]

\* the JSON source file is compiled, not copied
SkipItem(n, item) == item.type = "file" /\ Lower(n.suffix) = Chars(".json")

\* What stands at dest_path after the copy of one item.  A directory
\* replaces an existing directory; rmtree of an existing file raises and
\* the item is skipped with a warning; a file copied onto an existing
\* directory lands inside that directory.
CopyItem(n, item, dest) ==
    IF item.type = "dir"
    THEN IF n \in DOMAIN dest /\ dest[n].type # "dir" THEN dest[n] ELSE item
    ELSE IF n \in DOMAIN dest /\ dest[n].type = "dir"
         THEN [dest[n] EXCEPT !.children = Put(@, n, item.text)]
         ELSE item

add_skill_files(out, skill_name, provider, src) ==
    IF provider \notin PROVIDER_PATHS THEN out
    ELSE IF skill_name \notin DOMAIN src THEN out
    ELSE LET key == <<provider, skill_name>>
             src_dir == src[skill_name]
             dest == IF key \in DOMAIN out.assets THEN out.assets[key]
                     ELSE << >>
             copied == {n \in DOMAIN src_dir : ~SkipItem(n, src_dir[n])}
         IN [out EXCEPT !.assets =
                Put(@, key, [n \in (DOMAIN dest) \cup copied |->
                                IF n \in copied
                                THEN CopyItem(n, src_dir[n], dest)
                                ELSE dest[n]])]

(***************************************************************************)
(* Driver: one entity (compile.py:355-446)                                 *)
(***************************************************************************)
\* What a run has done so far: the output tree, the printed lines and
\* whether the process still runs ("run"), has called sys.exit ("exit") or
\* has died of an uncaught exception ("error").
Ev(ev, name, provider) == [ev |-> ev, name |-> name, provider |-> provider]

Say(rs, ev, name, provider) ==
    [rs EXCEPT !.trace = Append(@, Ev(ev, name, provider))]

StartRun(out) == [out |-> out, trace |-> << >>, status |-> "run", ret |-> "none"]

TemplateType(kind) == IF kind = "skills" THEN "skills" ELSE "agents"

SchemaName(kind) ==
    CASE kind = "agents" -> "agent.schema.json"
      [] kind = "commands" -> "command.schema.json"
      [] kind = "skills" -> "skill.schema.json"

DefaultProviders(kind) ==
    IF kind = "skills" THEN <<"claude", "opencode">>
    ELSE <<"claude", "opencode", "copilot">>

\* the write of one rendered document; PROVIDER_PATHS[provider] raises
\* KeyError for a provider without an output root
WriteEntity(rs, kind, name, content, provider, src) ==
    IF provider \notin PROVIDER_PATHS
    THEN [Say(rs, "KeyError", name, provider) EXCEPT !.status = "error"]
    ELSE LET out1 ==
               CASE kind = "agents" ->
                      write_agent_output(rs.out, name, content, provider)
                 [] kind = "commands" ->
                      write_command_output(rs.out, name, content, provider)
                 [] kind = "skills" ->
                      add_skill_files(
                          write_skill_output(rs.out, name, content, provider),
                          name, provider, src)
         IN [Say(rs, "Written", name, provider) EXCEPT !.out = out1]

\* compile_<kind>_for_provider
CompileFor(kind, data, provider, tpls) ==
    CASE kind = "agents" -> compile_agent_for_provider(data, provider, tpls)
      [] kind = "commands" -> compile_command_for_provider(data, provider, tpls)
      [] kind = "skills" -> compile_skill_for_provider(data, provider, tpls)

\* the body of the provider loop: c is what the compiler returned
ProviderStep(rs, kind, name, c, provider, src) ==
    IF c.status = "exit"
    THEN [Say(rs, "TemplateNotFound", name, provider) EXCEPT !.status = "exit"]
    ELSE IF TruthyText(c.content)
    THEN WriteEntity(rs, kind, name, c.content, provider, src)
    ELSE rs

\* for provider in providers_to_compile: compile, write if there is content
RECURSIVE ProviderLoop(_, _, _, _, _, _, _)
ProviderLoop(rs, kind, data, name, provs, tpls, src) ==
    IF provs = << >> \/ rs.status # "run" THEN rs
    ELSE ProviderLoop(
             ProviderStep(rs, kind, name,
                          CompileFor(kind, data, Head(provs), tpls),
                          Head(provs), src),
             kind, data, name, Tail(provs), tpls, src)

\* `return True` at the end of a compile that was not cut short
Returned(rs) == IF rs.status = "run" THEN [rs EXCEPT !.ret = "True"] ELSE rs

\* a driver without the name check
NameMissing_unchecked(name) == FALSE

\* the name check of the driver: `if not agent_name`
NameMissing(name) == ~TruthyText(name)

\* compile one descriptor file: load, validate, check the name, compile
\* and write for each provider.  ret is the return value.
CompileEntity(rs, kind, data, providers, tpls, schs, src) ==
    LET rs0 == Say(rs, "Compiling", data.name, kind) IN
    IF data.json = "malformed"
    THEN [Say(rs0, "JSONDecodeError", << >>, kind) EXCEPT !.status = "error"]
    ELSE IF ~validate_json(data, load_schema(schs, SchemaName(kind)))
    THEN [Say(rs0, "ValidationFailed", data.name, kind) EXCEPT !.ret = "False"]
    ELSE LET name == Get(data, "name", None) IN
         IF NameMissing(name)
         THEN [Say(rs0, "NameNotFound", << >>, kind) EXCEPT !.ret = "False"]
         ELSE Returned(ProviderLoop(rs0, kind, data, Str(name),
                                    IF providers = << >>
                                    THEN DefaultProviders(kind)
                                    ELSE providers,
                                    tpls, src))

compile_agent(rs, agent_file, providers, tpls, schs, src) ==
    CompileEntity(rs, "agents", agent_file, providers, tpls, schs, src)

compile_command(rs, command_file, providers, tpls, schs, src) ==
    CompileEntity(rs, "commands", command_file, providers, tpls, schs, src)

compile_skill(rs, skill_file, providers, tpls, schs, src) ==
    CompileEntity(rs, "skills", skill_file, providers, tpls, schs, src)

(***************************************************************************)
(* Inputs of the driver                                                    *)
(***************************************************************************)
\* --provider choices (compile.py:612)
ProviderChoices == {"claude", "opencode", "copilot", "gemini"}

TemplateTypes == {"agents", "skills"}

TheTemplate == << Lit(<<"#">>), Var("name"), Lit(<<NL>>),
                  Var("tools_section"), Var("description") >>

TemplatesWithout(missing) ==
    [k \in (TemplateTypes \X ProviderChoices) \ missing |-> TheTemplate]

\* Template folders: one without the gemini templates, one where the
\* opencode templates are missing too
TemplateConfigs ==
    { TemplatesWithout({<<"agents", "gemini">>}),
      TemplatesWithout({<<"agents", "gemini">>, <<"agents", "opencode">>,
                        <<"skills", "opencode">>}) }

\* Schema folders: schemas for agents and skills but none for commands,
\* and no schema file at all
SchemaConfigs ==
    { [k \in {"agent.schema.json", "skill.schema.json"} |->
          Schema(<<"name", "description">>)],
      << >> }

SomeTools == JList(<< <<"r", "E", "a", "d">> >>)

Malformed == [NoData EXCEPT !.json = "malformed"]

Descriptor(fields, name, disabled) ==
    [json |-> "ok", fields |-> fields, name |-> name, disabled |-> disabled,
     tools |-> SomeTools]

\* Descriptor files: complete ones (one with a provider switched off, one
\* whose name ends in a blank), ones lacking a field, one with an empty
\* name, and a file that is not JSON
Descriptors ==
    { Descriptor({"name", "description"}, <<"a">>, {}),
      Descriptor({"name", "description"}, <<"a">>, {"claude"}),
      Descriptor({"name", "description"}, <<"a", SP>>, {}),
      Descriptor({"name", "description"}, <<"b">>, {"opencode"}),
      Descriptor({"name", "description"}, << >>, {}),
      Descriptor({"name"}, <<"a">>, {}),
      Descriptor({"description"}, << >>, {}),
      Descriptor({}, << >>, {}),
      Malformed }

\* The providers argument: None, or the --provider values in order
ProviderArgs ==
    { << >>, <<"claude">>, <<"opencode", "gemini", "claude">> }

\* The skill folders of the single-entity runs
SomeSkillFolder ==
    Put(Put(<< >>, ItemName(<<"x">>, << >>), FileItem(<<"1">>)),
        ItemName(<<"d">>, << >>),
        DirItem(Put(<< >>, ItemName(<<"f">>, << >>), <<"2">>)))

(***************************************************************************)
(* Single-entity runs                                                      *)
(***************************************************************************)
CompileCall(kind, data, providers, rs, n) ==
    [NoLast EXCEPT !.op = "compile", !.category = kind, !.data = data,
                   !.providers = providers, !.ret = rs.ret,
                   !.status = rs.status, !.seq = n]

InitCompile ==
    /\ output = EmptyOutput
    /\ skillsrc = Put(<< >>, <<"a">>, SomeSkillFolder)
    /\ agentsDir = << >>
    /\ commandsDir = << >>
    /\ legacy = << >>
    /\ templates \in TemplateConfigs
    /\ schemas \in SchemaConfigs
    /\ last = NoLast
    /\ trace = << >>
    /\ budget = MaxCompiles
    /\ written = << >>
    /\ fmt = NoFormat

CompileAgent ==
    \E data \in Descriptors, providers \in ProviderArgs :
        /\ budget > 0
        /\ LET rs == compile_agent(StartRun(output), data, providers,
                                   templates, schemas, skillsrc)
           IN /\ output' = rs.out
              /\ trace' = rs.trace
              /\ last' = CompileCall("agents", data, providers, rs, budget)
        /\ budget' = budget - 1
        /\ UNCHANGED <<fmt, skillsrc, agentsDir, commandsDir, legacy, templates,
                       schemas, written>>

CompileCommand ==
    \E data \in Descriptors, providers \in ProviderArgs :
        /\ budget > 0
        /\ LET rs == compile_command(StartRun(output), data, providers,
                                     templates, schemas, skillsrc)
           IN /\ output' = rs.out
              /\ trace' = rs.trace
              /\ last' = CompileCall("commands", data, providers, rs, budget)
        /\ budget' = budget - 1
        /\ UNCHANGED <<fmt, skillsrc, agentsDir, commandsDir, legacy, templates,
                       schemas, written>>

CompileSkill ==
    \E data \in Descriptors, providers \in ProviderArgs :
        /\ budget > 0
        /\ LET rs == compile_skill(StartRun(output), data, providers,
                                   templates, schemas, skillsrc)
           IN /\ output' = rs.out
              /\ trace' = rs.trace
              /\ last' = CompileCall("skills", data, providers, rs, budget)
        /\ budget' = budget - 1
        /\ UNCHANGED <<fmt, skillsrc, agentsDir, commandsDir, legacy, templates,
                       schemas, written>>

NextCompile == CompileAgent \/ CompileCommand \/ CompileSkill

SpecCompile == InitCompile /\ [][NextCompile]_vars

(***************************************************************************)
(* Properties of single-entity runs                                        *)
(***************************************************************************)
\* everything the output tree holds under the output root of provider p
Under(out, p) ==
    [ outfile  |-> [k \in {x \in DOMAIN out.outfile : x[1] = p} |->
                       out.outfile[k]],
      manifest |-> [k \in {x \in DOMAIN out.manifest : x[1] = p} |->
                       out.manifest[k]],
      assets   |-> [k \in {x \in DOMAIN out.assets : x[1] = p} |->
                       out.assets[k]] ]

ProvidersOf(call) ==
    IF call.providers = << >> THEN DefaultProviders(call.category)
    ELSE call.providers

\* C1: a provider switched off in the descriptor's `providers` map gets
\* no output file and no manifest line from the compile of that entity,
\* and the enabled providers of the run still get their output file and
\* manifest.
C1_DisabledProviderSkipped ==
    [][(last'.op = "compile" /\ budget' = budget - 1) =>
         /\ \A p \in last'.data.disabled : Under(output', p) = Under(output, p)
         /\ last'.ret = "True" =>
              \A q \in Range(ProvidersOf(last')) \ last'.data.disabled :
                 /\ <<q, last'.category, last'.data.name>>
                        \in DOMAIN output'.outfile
                 /\ <<q, last'.category>> \in DOMAIN output'.manifest]_vars

C1_Witness ==
    /\ last.op = "compile"
    /\ last.ret = "True"
    /\ "claude" \in last.data.disabled
    /\ "claude" \in Range(ProvidersOf(last))
    /\ <<"opencode", last.category, last.data.name>> \in DOMAIN output.outfile
    /\ Under(output, "claude") = Under(EmptyOutput, "claude")

\* C3: compiling the same unchanged descriptor for the same providers a
\* second time leaves every output file and every manifest as the first
\* compile left them.
C3_CompileIdempotent ==
    [][(/\ last.op = "compile" /\ last'.op = "compile"
        /\ budget' = budget - 1
        /\ last'.category = last.category
        /\ last'.data = last.data
        /\ last'.providers = last.providers) => output' = output]_vars

\* C4: a descriptor without a name, or with an empty one, is rejected:
\* the call returns failure and writes nothing, with or without a schema.
C4_MissingNameRejected ==
    [][(/\ last'.op = "compile" /\ budget' = budget - 1
        /\ last'.data.json = "ok"
        /\ ~TruthyText(Get(last'.data, "name", None)))
          => (last'.ret = "False" /\ output' = output)]_vars

C4_Witness ==
    /\ last.op = "compile"
    /\ last.data.json = "ok"
    /\ "name" \notin last.data.fields
    /\ load_schema(schemas, SchemaName(last.category)).none
    /\ last.ret = "False"
    /\ output # EmptyOutput

(***************************************************************************)
(* Driver: all entities of a kind (compile.py:449-526)                     *)
(***************************************************************************)
\* for file in files: compile it; an exit or an uncaught exception ends
\* the loop, and the run
RECURSIVE CompileFiles(_, _, _, _, _, _, _)
CompileFiles(rs, kind, files, providers, tpls, schs, src) ==
    IF files = << >> \/ rs.status # "run" THEN rs
    ELSE CompileFiles(
             CASE kind = "agents" ->
                    compile_agent(rs, Head(files), providers, tpls, schs, src)
               [] kind = "commands" ->
                    compile_command(rs, Head(files), providers, tpls, schs,
                                    src)
               [] kind = "skills" ->
                    compile_skill(rs, Head(files), providers, tpls, schs, src),
             kind, Tail(files), providers, tpls, schs, src)

Finish(rs, kind) ==
    IF rs.status = "run" THEN [Say(rs, "CompiledAll", << >>, kind)
                                  EXCEPT !.ret = "none"]
    ELSE rs

compile_all_agents(rs, providers, agent_files, tpls, schs, src) ==
    Finish(CompileFiles(rs, "agents", agent_files, providers, tpls, schs, src),
           "agents")

compile_all_commands(rs, providers, command_files, tpls, schs, src) ==
    Finish(CompileFiles(rs, "commands", command_files, providers, tpls, schs,
                        src), "commands")

\* the *.json entries of a skill folder (the glob is case-sensitive)
JsonCandidates(folder) ==
    {n \in DOMAIN folder : n.suffix = Chars(".json")}

\* <skilldir>/<skilldir>.json if it exists, else the first candidate
SkillFile(dirname, folder) ==
    LET preferred == ItemName(dirname, Chars(".json")) IN
    IF preferred \in DOMAIN folder THEN folder[preferred]
    ELSE folder[CHOOSE n \in JsonCandidates(folder) : TRUE]

\* the descriptor files compile_all_skills compiles, in order: the chosen
\* file of each skill folder that has one (folders in the order `dirs`),
\* then the legacy files
SkillFiles(src, dirs, legacy_jsons) ==
    LET withJson == SelectSeq(dirs, LAMBDA n : JsonCandidates(src[n]) # {})
    IN [i \in DOMAIN withJson |-> SkillFile(withJson[i], src[withJson[i]]).data]
       \o legacy_jsons

compile_all_skills(rs, providers, dirs, legacy_jsons, tpls, schs, src) ==
    IF Len(dirs) + Len(legacy_jsons) = 0
    THEN Say(rs, "NoSkillsFound", << >>, "skills")
    ELSE Finish(CompileFiles(rs, "skills", SkillFiles(src, dirs, legacy_jsons),
                             providers, tpls, schs, src), "skills")

(***************************************************************************)
(* Runs over a source tree that is edited between runs                     *)
(***************************************************************************)
\* Descriptor files put into the source folders
SourceFiles ==
    { Descriptor({"name", "description"}, <<"a">>, {}),
      Descriptor({"name", "description"}, <<"b">>, {"claude"}),
      Descriptor({"name"}, <<"a">>, {}),
      Descriptor({"description"}, << >>, {}),
      Malformed }

SkillDirNames == { <<"a">>, <<"b">> }

\* A skill folder: an asset, and possibly its descriptor file
SkillFolders(dirname) ==
    { Put(<< >>, ItemName(<<"x">>, << >>), FileItem(<<"1">>)) } \cup
    { Put(Put(<< >>, ItemName(<<"x">>, << >>), FileItem(<<"1">>)),
          ItemName(dirname, Chars(".json")), JsonItem(d)) : d \in SourceFiles }

\* the orders in which iterdir() may list the skill folders
DirOrders(src) ==
    {o \in UNION {[1..n -> DOMAIN src] : n \in {Cardinality(DOMAIN src)}} :
        \A i, j \in DOMAIN o : o[i] = o[j] => i = j}

Step(op, kind, providers, rs, n) ==
    [NoLast EXCEPT !.op = op, !.category = kind, !.providers = providers,
                   !.ret = rs.ret, !.status = rs.status, !.seq = n]

InitAll ==
    /\ output = EmptyOutput
    /\ skillsrc = << >>
    /\ agentsDir = << >>
    /\ commandsDir = << >>
    /\ legacy = << >>
    /\ templates \in TemplateConfigs
    /\ schemas \in SchemaConfigs
    /\ last = NoLast
    /\ trace = << >>
    /\ budget = MaxSteps
    /\ written = << >>
    /\ fmt = NoFormat

Edited == /\ last' = [NoLast EXCEPT !.op = "edit", !.seq = budget]
          /\ budget' = budget - 1
          /\ trace' = << >>
          /\ UNCHANGED <<fmt, output, templates, schemas, written>>

AddAgentFile ==
    \E d \in SourceFiles :
        /\ budget > 0 /\ Len(agentsDir) < MaxFiles
        /\ agentsDir' = Append(agentsDir, d)
        /\ Edited
        /\ UNCHANGED <<fmt, commandsDir, skillsrc, legacy>>

AddCommandFile ==
    \E d \in SourceFiles :
        /\ budget > 0 /\ Len(commandsDir) < MaxFiles
        /\ commandsDir' = Append(commandsDir, d)
        /\ Edited
        /\ UNCHANGED <<fmt, agentsDir, skillsrc, legacy>>

AddSkillFolder ==
    \E dirname \in SkillDirNames \ DOMAIN skillsrc :
      \E folder \in SkillFolders(dirname) :
        /\ budget > 0 /\ Cardinality(DOMAIN skillsrc) < MaxFiles
        /\ skillsrc' = Put(skillsrc, dirname, folder)
        /\ Edited
        /\ UNCHANGED <<fmt, agentsDir, commandsDir, legacy>>

AddLegacySkill ==
    \E d \in SourceFiles :
        /\ budget > 0 /\ Len(legacy) < MaxFiles
        /\ legacy' = Append(legacy, d)
        /\ Edited
        /\ UNCHANGED <<fmt, agentsDir, commandsDir, skillsrc>>

Ran(op, kind, providers, rs) ==
    /\ output' = rs.out
    /\ trace' = rs.trace
    /\ last' = Step(op, kind, providers, rs, budget)
    /\ budget' = budget - 1
    /\ UNCHANGED <<fmt, skillsrc, agentsDir, commandsDir, legacy, templates,
                   schemas, written>>

CompileAllAgents ==
    \E providers \in ProviderArgs :
        /\ budget > 0
        /\ Ran("compile_all", "agents", providers,
               compile_all_agents(StartRun(output), providers, agentsDir,
                                  templates, schemas, skillsrc))

CompileAllCommands ==
    \E providers \in ProviderArgs :
        /\ budget > 0
        /\ Ran("compile_all", "commands", providers,
               compile_all_commands(StartRun(output), providers, commandsDir,
                                    templates, schemas, skillsrc))

CompileAllSkills ==
    \E providers \in ProviderArgs, dirs \in DirOrders(skillsrc) :
        /\ budget > 0
        /\ Ran("compile_all", "skills", providers,
               compile_all_skills(StartRun(output), providers, dirs, legacy,
                                  templates, schemas, skillsrc))

NextAll ==
    \/ AddAgentFile \/ AddCommandFile \/ AddSkillFolder \/ AddLegacySkill
    \/ CompileAllAgents \/ CompileAllCommands \/ CompileAllSkills

SpecAll == InitAll /\ [][NextAll]_vars

(***************************************************************************)
(* Properties of the all-of-kind runs                                      *)
(***************************************************************************)
\* the descriptor files an all-of-kind run finds
Found(kind, agents, commands, src, legacy_jsons) ==
    CASE kind = "agents" -> Range(agents)
      [] kind = "commands" -> Range(commands)
      [] kind = "skills" ->
            {SkillFile(n, src[n]).data :
                 n \in {m \in DOMAIN src : JsonCandidates(src[m]) # {}}}
            \cup Range(legacy_jsons)

\* the descriptor is one the driver accepts
Accepted(d, kind, schs) ==
    /\ d.json = "ok"
    /\ validate_json(d, load_schema(schs, SchemaName(kind)))
    /\ TruthyText(Get(d, "name", None))

HasTemplate(tpls, kind, p) == <<TemplateType(kind), p>> \in DOMAIN tpls

Count(ev, tr) == Cardinality({i \in DOMAIN tr : tr[i].ev = ev})

\* C7: in an all-of-kind run whose providers all have a template and an
\* output root, a descriptor with a per-entity error is skipped and every
\* descriptor of the run is still processed: each accepted descriptor has
\* its output for each of its enabled providers.
C7_ErrorsSkippedRunContinues ==
    [][(/\ last'.op = "compile_all" /\ budget' = budget - 1
        /\ \A p \in Range(ProvidersOf(last')) :
              p \in PROVIDER_PATHS /\ HasTemplate(templates, last'.category, p))
        => \A d \in Found(last'.category, agentsDir, commandsDir, skillsrc,
                          legacy) :
              Accepted(d, last'.category, schemas) =>
                 \A p \in Range(ProvidersOf(last')) \ d.disabled :
                    <<p, last'.category, d.name>> \in DOMAIN output'.outfile]_vars

\* C8: when an accepted entity meets an enabled provider whose template
\* file is missing, the run aborts: it ends with the process exit (unless
\* it died earlier), nothing is printed or written after the exit, and no
\* output is ever written for a provider without a template.
C8_MissingTemplateAborts ==
    [][(last'.op = "compile_all" /\ budget' = budget - 1) =>
        /\ (\E d \in Found(last'.category, agentsDir, commandsDir, skillsrc,
                           legacy) :
               /\ Accepted(d, last'.category, schemas)
               /\ \E p \in Range(ProvidersOf(last')) \ d.disabled :
                     ~HasTemplate(templates, last'.category, p))
              => last'.status \in {"exit", "error"}
        /\ \A i \in DOMAIN trace' :
              /\ trace'[i].ev = "TemplateNotFound" =>
                    /\ i = Len(trace')
                    /\ last'.status = "exit"
                    /\ Under(output', trace'[i].provider)
                          = Under(output, trace'[i].provider)
              /\ trace'[i].ev = "Written" =>
                    HasTemplate(templates, last'.category, trace'[i].provider)]_vars

C8_Witness ==
    /\ last.op = "compile_all"
    /\ last.category = "agents"
    /\ last.status = "exit"
    /\ trace[Len(trace)].ev = "TemplateNotFound"
    /\ \E i \in DOMAIN trace : trace[i].ev = "Written"
    /\ Count("Compiling", trace) < Len(agentsDir)

(***************************************************************************)
(* Validation-only mode and main (compile.py:529-678)                      *)
(***************************************************************************)
\* the i-th descriptor file of a folder is <Stem(i)>.json
Stem(i) == <<"f", ToString(i)>>

RECURSIVE ValidateFiles(_, _, _, _)
ValidateFiles(rs, files, schema, kind) ==
    IF files = << >> THEN rs
    ELSE LET d == Head(files)
             ok == d.json = "ok" /\ validate_json(d, schema)
             rs1 == IF ok THEN Say(rs, "Valid", d.name, kind)
                    ELSE [Say(rs, "Invalid", d.name, kind)
                             EXCEPT !.ret = "False"]
         IN ValidateFiles(rs1, Tail(files), schema, kind)

\* validate the agent files and the *.json files directly under SKILLS_DIR
validate_all(rs, agent_files, legacy_jsons, schs) ==
    LET rs1 == ValidateFiles([rs EXCEPT !.ret = "True"], agent_files,
                             load_schema(schs, "agent.schema.json"), "agents")
    IN ValidateFiles(rs1, legacy_jsons,
                     load_schema(schs, "skill.schema.json"), "skills")

NoArgs == [validate |-> FALSE, all |-> FALSE, agent |-> None,
           command |-> None, skill |-> None, agents_only |-> FALSE,
           commands_only |-> FALSE, skills_only |-> FALSE,
           provider |-> << >>]

Exit(rs, ev, name, kind) == [Say(rs, ev, name, kind) EXCEPT !.status = "exit"]

HasFile(files, name) == \E i \in DOMAIN files : Stem(i) = name
FileNamed(files, name) == files[CHOOSE i \in DOMAIN files : Stem(i) = name]

\* the three `if args.all or args.<kind>_only` steps at the end of main; a
\* process that has exited or died makes no further step
AllAgents(rs, args, agents, tpls, schs, src) ==
    IF rs.status = "run" /\ (args.all \/ args.agents_only)
    THEN compile_all_agents(rs, args.provider, agents, tpls, schs, src)
    ELSE rs

AllCommands(rs, args, commands, tpls, schs, src) ==
    IF rs.status = "run" /\ (args.all \/ args.commands_only)
    THEN compile_all_commands(rs, args.provider, commands, tpls, schs, src)
    ELSE rs

AllSkills(rs, args, dirs, legacy_jsons, tpls, schs, src) ==
    IF rs.status = "run" /\ (args.all \/ args.skills_only)
    THEN compile_all_skills(rs, args.provider, dirs, legacy_jsons, tpls, schs,
                            src)
    ELSE rs

Complete(rs) ==
    IF rs.status = "run"
    THEN [Say(rs, "Complete", << >>, "none") EXCEPT !.ret = "none"]
    ELSE rs

\* main after the validate branch (compile.py:626-678)
MainCompile(rs, args, agents, commands, dirs, legacy_jsons, tpls, schs, src) ==
    IF ~(\/ args.all \/ TruthyText(args.agent) \/ TruthyText(args.command)
         \/ TruthyText(args.skill) \/ args.agents_only
         \/ args.commands_only \/ args.skills_only)
    THEN Exit(rs, "Help", << >>, "none")
    ELSE IF TruthyText(args.agent)
    THEN IF ~HasFile(agents, args.agent)
         THEN Exit(rs, "NotFound", args.agent, "agents")
         ELSE compile_agent(rs, FileNamed(agents, args.agent), args.provider,
                            tpls, schs, src)
    ELSE IF TruthyText(args.command)
    THEN IF ~HasFile(commands, args.command)
         THEN Exit(rs, "NotFound", args.command, "commands")
         ELSE compile_command(rs, FileNamed(commands, args.command),
                              args.provider, tpls, schs, src)
    ELSE IF TruthyText(args.skill)
    THEN IF HasFile(legacy_jsons, args.skill)
         THEN compile_skill(rs, FileNamed(legacy_jsons, args.skill),
                            args.provider, tpls, schs, src)
         ELSE IF /\ args.skill \in DOMAIN src
                 /\ ItemName(args.skill, Chars(".json"))
                        \in DOMAIN src[args.skill]
         THEN compile_skill(rs,
                  src[args.skill][ItemName(args.skill, Chars(".json"))].data,
                  args.provider, tpls, schs, src)
         ELSE Exit(rs, "NotFound", args.skill, "skills")
    ELSE Complete(
             AllSkills(
                 AllCommands(
                     AllAgents(rs, args, agents, tpls, schs, src),
                     args, commands, tpls, schs, src),
                 args, dirs, legacy_jsons, tpls, schs, src))

\* the validate branch without its return: validation, then the rest
main_no_return(rs, args, agents, commands, dirs, legacy_jsons, tpls, schs, src) ==
    MainCompile(IF args.validate
                THEN validate_all(rs, agents, legacy_jsons, schs) ELSE rs,
                args, agents, commands, dirs, legacy_jsons, tpls, schs, src)

main(rs, args, agents, commands, dirs, legacy_jsons, tpls, schs, src) ==
    IF args.validate
    THEN validate_all(rs, agents, legacy_jsons, schs)
    ELSE MainCompile(rs, args, agents, commands, dirs, legacy_jsons, tpls,
                     schs, src)

\* Command lines: --validate or not, one action flag or none, a name for
\* the flags that take one, and --provider values
EntityArgs == { Stem(1), <<"a">> }

MainArgs ==
    { [a EXCEPT !.validate = v, !.provider = p] :
        v \in BOOLEAN, p \in ProviderArgs,
        a \in {NoArgs,
               [NoArgs EXCEPT !.all = TRUE],
               [NoArgs EXCEPT !.agents_only = TRUE],
               [NoArgs EXCEPT !.commands_only = TRUE],
               [NoArgs EXCEPT !.skills_only = TRUE]}
              \cup {[NoArgs EXCEPT !.agent = n] : n \in EntityArgs}
              \cup {[NoArgs EXCEPT !.command = n] : n \in EntityArgs}
              \cup {[NoArgs EXCEPT !.skill = n] : n \in EntityArgs} }

\* the action the command line asks for
Action(args) ==
    IF TruthyText(args.agent) THEN "agent"
    ELSE IF TruthyText(args.command) THEN "command"
    ELSE IF TruthyText(args.skill) THEN "skill"
    ELSE IF args.all THEN "all"
    ELSE IF args.agents_only THEN "agents_only"
    ELSE IF args.commands_only THEN "commands_only"
    ELSE IF args.skills_only THEN "skills_only"
    ELSE "none"

InitMain ==
    /\ output = EmptyOutput
    /\ skillsrc = << >>
    /\ agentsDir = << >>
    /\ commandsDir = << >>
    /\ legacy = << >>
    /\ templates \in TemplateConfigs
    /\ schemas \in SchemaConfigs
    /\ last = NoLast
    /\ trace = << >>
    /\ budget = MaxMainSteps
    /\ written = << >>
    /\ fmt = NoFormat

Main ==
    \E args \in MainArgs, dirs \in DirOrders(skillsrc) :
        /\ budget > 0
        /\ LET rs == main(StartRun(output), args, agentsDir, commandsDir,
                          dirs, legacy, templates, schemas, skillsrc)
           IN /\ output' = rs.out
              /\ trace' = rs.trace
              /\ last' = [NoLast EXCEPT !.op = "main",
                                        !.category = Action(args),
                                        !.providers = args.provider,
                                        !.validate = args.validate,
                                        !.ret = rs.ret,
                                        !.status = rs.status,
                                        !.seq = budget]
        /\ budget' = budget - 1
        /\ UNCHANGED <<fmt, skillsrc, agentsDir, commandsDir, legacy, templates,
                       schemas, written>>

NextMain ==
    \/ AddAgentFile \/ AddCommandFile \/ AddSkillFolder \/ AddLegacySkill
    \/ Main

SpecMain == InitMain /\ [][NextMain]_vars

\* C9: a run with --validate creates or modifies nothing in the output
\* tree, whatever the descriptors and whatever compile action the command
\* line also asks for.
C9_ValidateWritesNothing ==
    [][(last'.op = "main" /\ budget' = budget - 1 /\ last'.validate)
          => output' = output]_vars

C9_Witness ==
    /\ last.op = "main"
    /\ last.validate
    /\ last.category = "all"
    /\ \E i \in DOMAIN agentsDir : Accepted(agentsDir[i], "agents", schemas)
    /\ \E i \in DOMAIN trace : trace[i].ev = "Valid"
    /\ output = EmptyOutput

(***************************************************************************)
(* The asset copier over a skill folder that changes between runs          *)
(***************************************************************************)
TheSkill == <<"a">>

AssetNames == { ItemName(<<"x">>, << >>), ItemName(<<"s">>, Chars(".json")) }

AssetItems ==
    { FileItem(<<"1">>), FileItem(<<"2">>),
      DirItem(Put(<< >>, ItemName(<<"f">>, << >>), <<"1">>)),
      DirItem(Put(<< >>, ItemName(<<"g">>, << >>), <<"1">>)) }

InitAssets ==
    /\ output = EmptyOutput
    /\ skillsrc = Put(<< >>, TheSkill, << >>)
    /\ agentsDir = << >>
    /\ commandsDir = << >>
    /\ legacy = << >>
    /\ templates = << >>
    /\ schemas = << >>
    /\ last = NoLast
    /\ trace = << >>
    /\ budget = MaxEdits
    /\ written = << >>
    /\ fmt = NoFormat

\* the skill folder gets, replaces or loses an item
EditSource ==
    \E n \in AssetNames :
        /\ budget > 0
        /\ \/ \E item \in AssetItems :
                 skillsrc' = Put(skillsrc, TheSkill,
                                 Put(skillsrc[TheSkill], n, item))
           \/ /\ n \in DOMAIN skillsrc[TheSkill]
              /\ skillsrc' = Put(skillsrc, TheSkill,
                                 Drop(skillsrc[TheSkill], {n}))
        /\ last' = [NoLast EXCEPT !.op = "edit", !.seq = budget]
        /\ budget' = budget - 1
        /\ UNCHANGED <<fmt, output, agentsDir, commandsDir, legacy,
                       templates, schemas, trace, written>>

AddSkillFiles ==
    \E provider \in {"claude", "opencode"} :
        /\ budget > 0
        /\ output' = add_skill_files(output, TheSkill, provider, skillsrc)
        /\ last' = [NoLast EXCEPT !.op = "copy", !.name = TheSkill,
                                  !.provider = provider, !.seq = budget]
        /\ budget' = budget - 1
        /\ UNCHANGED <<fmt, skillsrc, agentsDir, commandsDir, legacy,
                       templates, schemas, trace, written>>

NextAssets == EditSource \/ AddSkillFiles

SpecAssets == InitAssets /\ [][NextAssets]_vars

\* the files and directories of a folder that are not JSON files
NonJson(folder) ==
    [n \in {m \in DOMAIN folder : ~SkipItem(m, folder[m])} |-> folder[n]]

\* C5: when add_skill_files runs again for a skill and provider after the
\* source folder changed, the destination folder holds exactly the
\* non-JSON files and directories of the source as it is now.
C5_NoStaleAssets ==
    [][(/\ last'.op = "copy" /\ budget' = budget - 1
        /\ <<last'.provider, TheSkill>> \in DOMAIN output.assets)
          => output'.assets[<<last'.provider, TheSkill>>]
                = NonJson(skillsrc[TheSkill])]_vars

(***************************************************************************)
(* The tool formatters applied to a tools value                            *)
(***************************************************************************)
ToolNames == { <<"r", "e", "a", "d">>, <<"W", "r", "i", "t", "e">>,
               <<"b", "A", "S", "H">>, <<"g", "O">> }

ToolLists == UNION {[1..n -> ToolNames] : n \in 0..MaxTools}

\* what the `tools` field of a descriptor may hold
ToolValues ==
    {JNull, JBool(FALSE), JBool(TRUE), JInt(0), JInt(5), JStr(<< >>),
     JStr(<<"r", "e", "a", "d">>)} \cup {JList(l) : l \in ToolLists}

InitTools ==
    /\ output = EmptyOutput
    /\ skillsrc = << >>
    /\ agentsDir = << >>
    /\ commandsDir = << >>
    /\ legacy = << >>
    /\ templates = << >>
    /\ schemas = << >>
    /\ last = NoLast
    /\ trace = << >>
    /\ budget = 0
    /\ written = << >>
    /\ fmt \in {[NoFormat EXCEPT !.tools = t] : t \in ToolValues}

Formatted(provider, text) ==
    /\ fmt' = [fmt EXCEPT !.provider = provider, !.text = text]
    /\ UNCHANGED <<output, skillsrc, agentsDir, commandsDir, legacy,
                   templates, schemas, last, trace, budget, written>>

FormatToolsClaude ==
    Formatted("claude", format_tools_claude(fmt.tools))

FormatToolsOpencode ==
    Formatted("opencode", format_tools_opencode(fmt.tools))

FormatToolsCopilot ==
    Formatted("copilot", format_tools_copilot(fmt.tools))

NextTools == FormatToolsClaude \/ FormatToolsOpencode \/ FormatToolsCopilot

SpecTools == InitTools /\ [][NextTools]_vars

\* s.split(sep) for a non-empty separator
RECURSIVE SplitOn(_, _, _)
SplitOn(s, sep, cur) ==
    IF s = << >> THEN <<cur>>
    ELSE IF Len(s) >= Len(sep) /\ SubSeq(s, 1, Len(sep)) = sep
    THEN <<cur>> \o SplitOn(SubSeq(s, Len(sep) + 1, Len(s)), sep, << >>)
    ELSE SplitOn(Tail(s), sep, Append(cur, Head(s)))

StartsWith(s, pre) == Len(s) >= Len(pre) /\ SubSeq(s, 1, Len(pre)) = pre
EndsWith(s, suf) ==
    Len(s) >= Len(suf) /\ SubSeq(s, Len(s) - Len(suf) + 1, Len(s)) = suf
Between(s, pre, suf) == SubSeq(s, Len(pre) + 1, Len(s) - Len(suf))

SameLetters(s, t) ==
    Len(s) = Len(t) /\ \A i \in DOMAIN s : LowerChar(s[i]) = LowerChar(t[i])
NoUpper(s) == \A i \in DOMAIN s : s[i] \notin Range(UpperChars)
NoLower(c) == c \notin Range(LowerChars)

\* the text is one line `tools: [i1, i2, ..]` whose items satisfy Item
BracketLine(text, names, Item(_, _)) ==
    /\ EndsWith(text, <<NL>>)
    /\ Len(Lines(text)) = 1
    /\ LET line == Lines(text)[1] IN
       /\ StartsWith(line, Chars("tools: [")) /\ EndsWith(line, <<"]">>)
       /\ LET items == SplitOn(Between(line, Chars("tools: ["), <<"]">>),
                               Chars(", "), << >>)
          IN /\ Len(items) = Len(names)
             /\ \A i \in DOMAIN names : Item(items[i], names[i])

CapitalizedItem(item, name) ==
    /\ SameLetters(item, name)
    /\ NoLower(item[1])
    /\ NoUpper(Tail(item))

QuotedLowerItem(item, name) ==
    /\ StartsWith(item, <<"'">>) /\ EndsWith(item, <<"'">>)
    /\ Len(item) >= 2
    /\ SameLetters(Between(item, <<"'">>, <<"'">>), name)
    /\ NoUpper(item)

KeyLines(text, names) ==
    /\ EndsWith(text, <<NL>>)
    /\ LET ls == Lines(text) IN
       /\ Len(ls) = Len(names) + 1
       /\ ls[1] = Chars("tools:")
       /\ \A i \in DOMAIN names :
             /\ StartsWith(ls[i + 1], <<SP, SP>>)
             /\ EndsWith(ls[i + 1], Chars(": true"))
             /\ LET key == Between(ls[i + 1], <<SP, SP>>, Chars(": true"))
                IN SameLetters(key, names[i]) /\ NoUpper(key)

ManifestLines(out, k) ==
    IF k \in DOMAIN out.manifest THEN Lines(out.manifest[k]) ELSE << >>

NoDuplicateLines(ls) == \A i, j \in DOMAIN ls : ls[i] = ls[j] => i = j

IsPrefix(s, t) == Len(s) <= Len(t) /\ SubSeq(t, 1, Len(s)) = s

FirstLine(ls, n) == CHOOSE i \in DOMAIN ls : ls[i] = n /\
                        \A j \in DOMAIN ls : ls[j] = n => i <= j

\* the names of w that are lines of ls stand in ls in the order of w
FirstAppearanceOrder(w, ls) ==
    \A i, j \in DOMAIN w :
        (i < j /\ w[i] \in Range(ls) /\ w[j] \in Range(ls))
            => FirstLine(ls, w[i]) < FirstLine(ls, w[j])

\* C2: in every state reached by any sequence of output writes, no
\* manifest.txt holds the same entity name on two different lines.
C2_NoDuplicateNames ==
    \A k \in DOMAIN output.manifest :
        NoDuplicateLines(ManifestLines(output, k))

\* C6: each manifest is append-only and keeps the order of first
\* appearance: the lines before a write are a prefix of the lines after it,
\* and a name first written earlier stands above one first written later.
C6_AppendOnlyOrdered ==
    [][\A k \in DOMAIN output'.manifest :
          /\ IsPrefix(ManifestLines(output, k), ManifestLines(output', k))
          /\ FirstAppearanceOrder(written'[k], ManifestLines(output', k))]_vars

\* C11: after any call that writes an entity's output for a provider,
\* whatever the manifest held before, the manifest of that provider and
\* category has the entity's name as one of its lines.
C11_WrittenNameListed ==
    last.op = "write" =>
        last.name \in Range(ManifestLines(output,
                                          <<last.provider, last.category>>))

(***************************************************************************)
(* Validation-only mode against compilation                                *)
(***************************************************************************)
\* the pass/fail lines a run printed for the files of a kind, in order
Verdicts(tr, kind) ==
    SelectSeq(tr, LAMBDA e : e.provider = kind /\ e.ev \in {"Valid", "Invalid"})

\* one verdict per discovered file, passing exactly when compiling the
\* file would accept it
SameLoadAndCheck(tr, kind, files, schs) ==
    /\ Len(Verdicts(tr, kind)) = Len(files)
    /\ \A i \in DOMAIN files :
          (Verdicts(tr, kind)[i].ev = "Valid") <=> Accepted(files[i], kind, schs)

\* C12: validation-only mode applies the load-and-check of compilation:
\* every agent, command and skill descriptor a compile-everything run
\* discovers is reported, as passing exactly when compiling it would accept
\* it, and the aggregate result is a pass exactly when all of them pass.
C12_ValidateMatchesCompile ==
    [][(last'.op = "main" /\ budget' = budget - 1 /\ last'.validate) =>
         /\ SameLoadAndCheck(trace', "agents", agentsDir, schemas)
         /\ SameLoadAndCheck(trace', "commands", commandsDir, schemas)
         /\ \E dirs \in DirOrders(skillsrc) :
               SameLoadAndCheck(trace', "skills",
                                SkillFiles(skillsrc, dirs, legacy), schemas)
         /\ (last'.ret = "True") <=>
               \A kind \in Categories :
                  \A d \in Found(kind, agentsDir, commandsDir, skillsrc,
                                 legacy) : Accepted(d, kind, schemas)]_vars

(***************************************************************************)
(* Frame of a compile of one entity                                        *)
(***************************************************************************)
\* the providers and the entity name a call writes for
OwnProviders(call) ==
    IF call.op = "write" THEN {call.provider} ELSE Range(ProvidersOf(call))

OwnName(call) == IF call.op = "write" THEN call.name ELSE call.data.name

\* the files of f other than those with a key in own
Others(f, own) == [k \in DOMAIN f \ own |-> f[k]]

\* the manifests of provider p for the categories other than category
OtherManifests(out, p, category) ==
    [k \in {x \in DOMAIN out.manifest : x[1] = p /\ x[2] # category} |->
        out.manifest[k]]

\* C13: compiling one entity for one provider touches only that pair's
\* output: every other entity's rendered file, every file under another
\* provider's output root and the manifests of the other categories of
\* the same provider stay as they were; of the files shared between
\* entities only the manifest of its own provider and category may change.
C13_TouchesOwnOutputOnly ==
    [][(last'.op \in {"write", "compile"} /\ budget' = budget - 1) =>
         /\ Others(output'.outfile,
                   {<<p, last'.category, OwnName(last')>> :
                        p \in OwnProviders(last')})
              = Others(output.outfile,
                       {<<p, last'.category, OwnName(last')>> :
                            p \in OwnProviders(last')})
         /\ Others(output'.assets,
                   {<<p, OwnName(last')>> : p \in OwnProviders(last')})
              = Others(output.assets,
                       {<<p, OwnName(last')>> : p \in OwnProviders(last')})
         /\ \A q \in PROVIDER_PATHS \ OwnProviders(last') :
               Under(output', q) = Under(output, q)
         /\ \A p \in PROVIDER_PATHS :
               OtherManifests(output', p, last'.category)
                  = OtherManifests(output, p, last'.category)]_vars

\* a command written for claude next to an agent of claude with its
\* manifest, and another command written for opencode
C13_Witness ==
    /\ last.op = "write"
    /\ last.category = "commands" /\ last.provider = "claude"
    /\ last.name = <<"a">>
    /\ <<"claude", "commands", <<"a">>>> \in DOMAIN output.outfile
    /\ <<"claude", "agents", <<"a", "b">>>> \in DOMAIN output.outfile
    /\ <<"claude", "agents">> \in DOMAIN output.manifest
    /\ <<"opencode", "commands", <<"b">>>> \in DOMAIN output.outfile

====
